---- MODULE Spec2Model ----
(***************************************************************************)
(* Model of the reorganization-tolerant confirmation buffer                *)
(* (src/src/buffer.rs, ReorganizingBuffer) driven by an arbitrary caller.  *)
(*                                                                         *)
(* Offsets are u64 in the source.  The model keeps the fixed width but     *)
(* scales it down: offsets range over 0..MaxU64 and unsigned arithmetic    *)
(* is taken modulo MaxU64 + 1 where the build wraps, or panics where the   *)
(* build checks overflow.                                                  *)
(***************************************************************************)
EXTENDS Integers, Sequences, FiniteSets, TLC

\* ------------------------------------------------------------- bounds
\* Largest representable offset (stands for u64::MAX).
MaxU64 == 5

\* Largest confirmation depth a buffer is constructed with.
MaxDepth == 3

\* Confirmation depth of the buffer of the host loop.  main constructs it
\* with depth 5; the model scales the depth down with the offset type so that
\* a reorg deeper than the buffer tolerates still fits in the offsets.
HostDepth == 4

\* Offsets a caller can pass: every value of the (scaled) u64 type.
Offsets == 0..MaxU64

\* Payloads a caller can pass: Vec<Value>, the empty vector included.
Payloads == {<<>>, <<"x">>}

\* ------------------------------------------------------------- state
VARIABLES
    buffer,           \* the ReorganizingBuffer: [depth, queue]
    before,           \* history: the buffer as the most recent call found it
    overflow_checks,  \* build profile: TRUE = overflow panics, FALSE = wraps
    call,             \* the argument of the most recent push call
    result,           \* what the most recent push call returned
    last_confirmed,   \* history: offsets of the last confirmed entry, if any
    confirmed_before, \* history: last_confirmed as the most recent call found it
    last_accepted,    \* history: the entry of the latest accepted push, if any
    host,             \* the loop of main: [pc, number, hash, logs, events,
                      \* pushed, error]
    twin,             \* a second buffer of the same depth that is pushed
                      \* the same offsets with payloads of its own:
                      \* [buffer, result]
    run,              \* the entries a caller pushing consecutive offsets
                      \* has pushed so far, oldest first
    watch             \* history of one arbitrary offset: [offset, latest,
                      \* evicted], the payload of the latest accepted push
                      \* of it and whether a reorg ever discarded an entry
                      \* of it

vars == <<buffer, before, overflow_checks, call, result, last_confirmed,
          confirmed_before, last_accepted, host, twin, run, watch>>

\* ------------------------------------------------------------- results
OkNone == [kind |-> "None"]

OkSome(entry) == [kind |-> "Some", entry |-> entry]

MissingOffset(n) == [kind |-> "MissingOffset", value |-> n]

DepthExceeded(n) == [kind |-> "DepthExceeded", value |-> n]

\* The thread panicked inside push: the call did not return.
Panic == [kind |-> "Panic"]

NotCalled == [kind |-> "NotCalled"]

IsErr(r) == r.kind \in {"MissingOffset", "DepthExceeded"}

IsOk(r) == r.kind \in {"None", "Some"}

\* ------------------------------------------------------------- VecDeque
back(q) == q[Len(q)]

pop_back(q) == IF q = <<>> THEN q ELSE SubSeq(q, 1, Len(q) - 1)

push_back(q, e) == Append(q, e)

pop_front(q) == IF q = <<>> THEN q ELSE Tail(q)

\* ------------------------------------------------------------- buffer
new(depth) == [depth |-> depth, queue |-> <<>>]

\* Variant of evict that stops one entry short of reorg_depth.
evict_one_short(q, reorg_depth) ==
    IF reorg_depth = 0
    THEN q
    ELSE SubSeq(q, 1, IF Len(q) > reorg_depth - 1
                      THEN Len(q) - (reorg_depth - 1) ELSE 0)

\* Variant of evict that discards nothing.
evict_none(q, reorg_depth) == q

\* for _ in 0..reorg_depth { self.queue.pop_back(); }
RECURSIVE evict(_, _)
evict(q, reorg_depth) ==
    IF reorg_depth = 0 THEN q ELSE evict(pop_back(q), reorg_depth - 1)

\* Variant of fail that has already popped the back entry when it returns.
fail_dropping_back(self, error) ==
    [self |-> [self EXCEPT !.queue = pop_back(@)], ret |-> error]

\* return Err(..): the early returns of push, taken before any mutation.
fail(self, error) == [self |-> self, ret |-> error]

\* Variant of confirm that lets the window grow to depth + 1 entries.
confirm_late(self, q, entry) ==
    LET pushed == push_back(q, entry)
    IN  IF Len(pushed) > self.depth + 1
        THEN [self |-> [self EXCEPT !.queue = pop_front(pushed)],
              ret  |-> OkSome(pushed[1])]
        ELSE [self |-> [self EXCEPT !.queue = pushed], ret |-> OkNone]

\* Variant of confirm that returns the front entry and keeps it queued.
confirm_without_pop(self, q, entry) ==
    LET pushed == push_back(q, entry)
    IN  IF Len(pushed) > self.depth
        THEN [self |-> [self EXCEPT !.queue = pushed],
              ret  |-> OkSome(pushed[1])]
        ELSE [self |-> [self EXCEPT !.queue = pushed], ret |-> OkNone]

\* Variant of confirm that hands out the newest entry instead of the oldest.
confirm_pop_back(self, q, entry) ==
    LET pushed == push_back(q, entry)
    IN  IF Len(pushed) > self.depth
        THEN [self |-> [self EXCEPT !.queue = pop_back(pushed)],
              ret  |-> OkSome(back(pushed))]
        ELSE [self |-> [self EXCEPT !.queue = pushed], ret |-> OkNone]

\* Variant of confirm that drops a front entry with an empty payload instead
\* of handing it out.
confirm_skipping_empty(self, q, entry) ==
    LET pushed == push_back(q, entry)
    IN  IF Len(pushed) > self.depth
        THEN [self |-> [self EXCEPT !.queue = pop_front(pushed)],
              ret  |-> IF pushed[1][2] = <<>> THEN OkNone
                       ELSE OkSome(pushed[1])]
        ELSE [self |-> [self EXCEPT !.queue = pushed], ret |-> OkNone]

\* Update queue with new item, then return the item that passed the
\* confirmation requirement.
confirm(self, q, entry) ==
    LET pushed == push_back(q, entry)
    IN  IF Len(pushed) > self.depth
        THEN [self |-> [self EXCEPT !.queue = pop_front(pushed)],
              ret  |-> OkSome(pushed[1])]
        ELSE [self |-> [self EXCEPT !.queue = pushed], ret |-> OkNone]

\* Variant of expected_offset that is one too high: it lets a push skip an
\* offset.
expected_offset_skipping(last_offset) == (last_offset + 2) % (MaxU64 + 1)

\* last_offset + 1 on u64: the wrapped value, and whether it overflowed.
expected_offset(last_offset) == (last_offset + 1) % (MaxU64 + 1)

overflows(last_offset) == last_offset + 1 > MaxU64

\* let reorg_depth = expected_offset - new_offset;
reorg_depth(self, new_offset) ==
    expected_offset(back(self.queue)[1]) - new_offset

\* push: `checks` is the build's overflow-checks setting.  With it the sum
\* last_offset + 1 panics at the top of the range, without it the sum wraps.
\* self.depth.try_into().unwrap() converts usize to u64 and cannot fail on
\* targets of at most 64 bits, so depth is compared as it is.
push(self, entry, checks) ==
    LET new_offset == entry[1]
    IN  IF self.queue # <<>>
        THEN LET last_offset == back(self.queue)[1]
                 expected == expected_offset(last_offset)
             IN  IF overflows(last_offset) /\ checks
                 THEN [self |-> self, ret |-> Panic]
                 ELSE IF new_offset > expected
                 THEN fail(self, MissingOffset(expected))
                 ELSE IF reorg_depth(self, new_offset) > self.depth
                 THEN fail(self, DepthExceeded(reorg_depth(self, new_offset)))
                 ELSE confirm(self,
                              evict(self.queue, reorg_depth(self, new_offset)),
                              entry)
        ELSE confirm(self, self.queue, entry)

\* ------------------------------------------------------------- main
\* The host before it has a block in hand (or when it is not running).
HostAt(pc) ==
    [pc |-> pc, number |-> 0, hash |-> TRUE, logs |-> <<>>, events |-> <<>>,
     pushed |-> FALSE, error |-> "none"]

\* What block_stream.next().await can yield: nothing or an error, or a block
\* header with or without a number and with or without a hash.
StreamItems ==
    {[ok |-> FALSE, has_number |-> FALSE, number |-> 0, hash |-> FALSE]}
    \cup [ok : {TRUE}, has_number : {FALSE}, number : {0}, hash : BOOLEAN]
    \cup [ok : {TRUE}, has_number : {TRUE}, number : Offsets, hash : BOOLEAN]

\* What web3.eth().logs(..) can return for a block: the logs of the pool, each
\* a well-formed Swap log, a log SwapParser::parse rejects, or a Swap log
\* with an amount to_decimal cannot convert (its unwrap panics).
LogBatches ==
    {<<>>, <<"swap">>, <<"malformed">>, <<"overflowing">>,
     <<"swap", "malformed">>}

\* SwapParser::parse on one log.
parse(log) ==
    IF log = "swap" THEN [kind |-> "Ok", event |-> "x"]
    ELSE IF log = "malformed" THEN [kind |-> "Err"]
    ELSE [kind |-> "Panic"]

\* Variant of collect that leaves out the logs parse rejects.
RECURSIVE collect_skipping_failures(_)
collect_skipping_failures(logs) ==
    IF logs = <<>>
    THEN [kind |-> "Ok", events |-> <<>>]
    ELSE LET first == parse(Head(logs))
             rest  == collect_skipping_failures(Tail(logs))
         IN  IF first.kind = "Panic"
             THEN [kind |-> "Panic"]
             ELSE IF first.kind = "Err" \/ rest.kind # "Ok"
             THEN rest
             ELSE [kind   |-> "Ok",
                   events |-> <<first.event>> \o rest.events]

\* logs.into_iter().map(parse).collect::<Result<Vec<_>, _>>(): the events in
\* order, or the first failure, at which the iteration stops.
RECURSIVE collect(_)
collect(logs) ==
    IF logs = <<>>
    THEN [kind |-> "Ok", events |-> <<>>]
    ELSE LET first == parse(Head(logs))
         IN  IF first.kind # "Ok"
             THEN [kind |-> first.kind]
             ELSE LET rest == collect(Tail(logs))
                  IN  IF rest.kind # "Ok"
                      THEN rest
                      ELSE [kind   |-> "Ok",
                            events |-> <<first.event>> \o rest.events]

\* ------------------------------------------------------------- behaviour
\* History only: the offsets of the entries an accepted push removed from the
\* back of the window (the entries the loop of push popped).
discarded(self, new_offset) ==
    IF self.queue = <<>>
    THEN {}
    ELSE LET kept == evict(self.queue, reorg_depth(self, new_offset))
         IN  {self.queue[i][1] : i \in (Len(kept) + 1)..Len(self.queue)}

Init ==
    /\ buffer \in {new(d) : d \in 0..MaxDepth}
    /\ before = buffer
    /\ overflow_checks \in BOOLEAN
    /\ call = <<>>
    /\ result = NotCalled
    /\ last_confirmed = {}
    /\ confirmed_before = {}
    /\ last_accepted = {}
    /\ host = HostAt("idle")
    /\ twin = [buffer |-> buffer, result |-> NotCalled]
    /\ run = <<>>
    /\ watch \in {[offset |-> o, latest |-> {}, evicted |-> FALSE] :
                    o \in Offsets}

\* One call buffer.push((new_offset, new_value)) by the owner of the buffer.
Push(new_offset, new_value) ==
    /\ result.kind # "Panic"
    /\ LET out == push(buffer, <<new_offset, new_value>>, overflow_checks)
       IN  /\ buffer' = out.self
           /\ before' = buffer
           /\ result' = out.ret
           /\ call' = <<new_offset, new_value>>
           /\ last_confirmed' = IF out.ret.kind = "Some"
                                THEN {out.ret.entry[1]}
                                ELSE last_confirmed
           /\ confirmed_before' = last_confirmed
           /\ last_accepted' = IF IsOk(out.ret)
                               THEN {<<new_offset, new_value>>}
                               ELSE last_accepted
           /\ watch' = IF IsOk(out.ret)
                       THEN [offset  |-> watch.offset,
                             latest  |-> IF new_offset = watch.offset
                                         THEN {new_value}
                                         ELSE watch.latest,
                             evicted |-> \/ watch.evicted
                                         \/ watch.offset \in
                                                discarded(buffer, new_offset)]
                       ELSE watch
    /\ UNCHANGED overflow_checks

Next ==
    \E o \in Offsets, p \in Payloads : Push(o, p) /\ UNCHANGED <<host, twin, run>>

Spec == Init /\ [][Next]_vars

\* ------------------------------------------------------------- a run
\* A caller that pushes consecutive offsets k, k + 1, k + 2, ... onto a new
\* buffer of depth >= 1, with no reorg and no gap (as the test reorg_none
\* does from k = 1), while the offset type has a next offset.
RunInit == Init /\ buffer.depth >= 1

RunPush(new_offset, new_value) ==
    /\ IF run = <<>> THEN TRUE ELSE new_offset = back(run)[1] + 1
    /\ Push(new_offset, new_value)
    /\ run' = Append(run, <<new_offset, new_value>>)
    /\ UNCHANGED <<host, twin>>

RunNext == \E o \in Offsets, p \in Payloads : RunPush(o, p)

\* Consecutive offsets keep arriving: the run goes on while it can.
RunSpec == RunInit /\ [][RunNext]_vars /\ WF_vars(RunNext)

\* ------------------------------------------------------------- a pair
\* Two buffers of the same depth whose owners push the same offsets, each
\* with a payload of its own.  The histories of the single buffer are not
\* kept here.
PairInit == Init /\ watch.offset = 0

PairPush(new_offset, new_value, twin_value) ==
    /\ result.kind # "Panic"
    /\ LET out  == push(buffer, <<new_offset, new_value>>, overflow_checks)
           out2 == push(twin.buffer, <<new_offset, twin_value>>,
                        overflow_checks)
       IN  /\ buffer' = out.self
           /\ result' = out.ret
           /\ call' = <<new_offset, new_value>>
           /\ twin' = [buffer |-> out2.self, result |-> out2.ret]
    /\ UNCHANGED <<before, overflow_checks, last_confirmed, confirmed_before,
                   last_accepted, host, run, watch>>

PairNext ==
    \E o \in Offsets, p \in Payloads, p2 \in Payloads : PairPush(o, p, p2)

PairSpec == PairInit /\ [][PairNext]_vars

\* ------------------------------------------------------------- host loop
\* main: one buffer, and a loop that reads a block, fetches its logs, parses
\* them and pushes (number, events).  The histories of the single buffer are
\* not kept here; host.pushed tells whether push has been called for the
\* block in hand.
HostInit ==
    /\ buffer = new(HostDepth)
    /\ before = buffer
    /\ overflow_checks \in BOOLEAN
    /\ call = <<>>
    /\ result = NotCalled
    /\ last_confirmed = {}
    /\ confirmed_before = {}
    /\ last_accepted = {}
    /\ host = HostAt("next_block")
    /\ twin = [buffer |-> buffer, result |-> NotCalled]
    /\ run = <<>>
    /\ watch = [offset |-> 0, latest |-> {}, evicted |-> FALSE]

HostUnchanged ==
    UNCHANGED <<before, overflow_checks, last_confirmed, confirmed_before,
                last_accepted, twin, run, watch>>

\* block_stream.next().await and block.number: anything but a block with a
\* number sends the loop round again.
NextBlock(item) ==
    /\ host.pc = "next_block"
    /\ host' = IF item.ok /\ item.has_number
               THEN [HostAt("logs") EXCEPT !.number = item.number,
                                           !.hash = item.hash]
               ELSE HostAt("next_block")
    /\ UNCHANGED <<buffer, call, result>>
    /\ HostUnchanged

\* web3.eth().logs(filter).await?: building the filter unwraps block.hash; a
\* failed request returns the error from main.
FetchLogs(ok, logs) ==
    /\ host.pc = "logs"
    /\ host' = IF ~host.hash
               THEN [host EXCEPT !.pc = "panicked"]
               ELSE IF ~ok
               THEN [host EXCEPT !.pc = "failed", !.error = "logs"]
               ELSE [host EXCEPT !.pc = "parse", !.logs = logs]
    /\ UNCHANGED <<buffer, call, result>>
    /\ HostUnchanged

\* The events of the block, or the first parse error returned from main.
ParseLogs ==
    /\ host.pc = "parse"
    /\ LET parsed == collect(host.logs)
       IN  host' = IF parsed.kind = "Err"
                   THEN [host EXCEPT !.pc = "failed", !.error = "parse"]
                   ELSE IF parsed.kind = "Panic"
                   THEN [host EXCEPT !.pc = "panicked"]
                   ELSE [host EXCEPT !.pc = "push",
                                     !.events = parsed.events]
    /\ UNCHANGED <<buffer, call, result>>
    /\ HostUnchanged

\* Variant of after_push that goes on with the next block after a gap.
after_push_lenient(ret) ==
    IF ret.kind = "DepthExceeded" THEN "returned"
    ELSE IF ret.kind = "Panic" THEN "panicked"
    ELSE "next_block"

\* Where the match on the result of buffer.push sends the loop.
after_push(ret) ==
    IF ret.kind = "DepthExceeded" THEN "returned"
    ELSE IF ret.kind = "MissingOffset" THEN "returned"
    ELSE IF ret.kind = "Panic" THEN "panicked"
    ELSE "next_block"

\* match buffer.push((block_number.as_u64(), events)) { .. }
HostPush ==
    /\ host.pc = "push"
    /\ LET out == push(buffer, <<host.number, host.events>>, overflow_checks)
       IN  /\ buffer' = out.self
           /\ result' = out.ret
           /\ call' = <<host.number, host.events>>
           /\ host' = [host EXCEPT !.pc = after_push(out.ret),
                                   !.pushed = TRUE]
    /\ HostUnchanged

HostNext ==
    \/ \E item \in StreamItems : NextBlock(item)
    \/ \E ok \in BOOLEAN, logs \in LogBatches : FetchLogs(ok, logs)
    \/ ParseLogs
    \/ HostPush

HostSpec == HostInit /\ [][HostNext]_vars

\* ------------------------------------------------------------- properties
Called == call # <<>>

\* Offset of the last entry of the window the most recent call found.
LastBefore == back(before.queue)[1]

\* Indices of the window the most recent call found that hold its offset.
HitsBefore == {i \in 1..Len(before.queue) : before.queue[i][1] = call[1]}

\* C1: the offsets returned as confirmed form a strictly increasing sequence:
\* every step that confirms an entry confirms an offset greater than the one
\* confirmed last before it.
C1_ConfirmedStrictlyIncreasing ==
    [][result'.kind = "Some"
          => \A o \in last_confirmed : result'.entry[1] > o]_vars

\* C2: whenever push returns MissingOffset or DepthExceeded, the buffer after
\* the call (depth, offsets, payloads, order) is the buffer before the call.
C2_ErrorLeavesWindowUnchanged == IsErr(result) => buffer = before

C2_Witness ==
    /\ result.kind = "DepthExceeded"
    /\ Len(before.queue) >= 2
    /\ buffer.queue = before.queue

\* C3: on a non-empty window with last offset `last`, push fails with
\* MissingOffset exactly when offset > last + 1, and the error carries
\* last + 1.
C3_MissingOffsetIff ==
    (Called /\ before.queue # <<>>)
        => /\ (result.kind = "MissingOffset") <=> (call[1] > LastBefore + 1)
           /\ result.kind = "MissingOffset" => result.value = LastBefore + 1

\* C4: on a non-empty window with last offset `last` and offset <= last + 1,
\* with r = last + 1 - offset, push fails with DepthExceeded(r) exactly when
\* r > depth and succeeds when r <= depth.
C4_DepthExceededIff ==
    (Called /\ before.queue # <<>> /\ call[1] <= LastBefore + 1)
        => LET r == LastBefore + 1 - call[1]
           IN  /\ (r > before.depth) <=> (result = DepthExceeded(r))
               /\ (r <= before.depth) => IsOk(result)

\* C5: after every push call returns, the window holds at most depth entries.
C5_WindowAtMostDepth == Len(buffer.queue) <= buffer.depth

C5_Witness ==
    /\ result.kind = "Some"
    /\ buffer.depth >= 2
    /\ Len(before.queue) = buffer.depth
    /\ Len(buffer.queue) = buffer.depth

\* C6: adjacent window entries have offsets that differ by exactly 1.
C6_AdjacentDifferByOne ==
    \A i \in 1..(Len(buffer.queue) - 1) :
        buffer.queue[i + 1][1] = buffer.queue[i][1] + 1

\* C7: when push succeeds with the offset of an entry of the window, the new
\* window is the entries strictly before that entry followed by the pushed
\* entry, and the call returns None.
C7_ReorgReplacesSuffix ==
    (Called /\ IsOk(result))
        => \A i \in HitsBefore :
              /\ buffer.queue = Append(SubSeq(before.queue, 1, i - 1), call)
              /\ result = OkNone

C7_Witness ==
    /\ IsOk(result)
    /\ \E i \in HitsBefore :
          /\ 1 < i
          /\ i < Len(before.queue)
          /\ before.queue[i][2] # call[2]

\* C8: with depth = 0 every push succeeds, returns Some of exactly the pushed
\* entry, and the window is empty before and after the call.
C8_DepthZeroPassthrough ==
    buffer.depth = 0
        => /\ buffer.queue = <<>>
           /\ before.queue = <<>>
           /\ Called => result = OkSome(call)

C8_Witness ==
    /\ buffer.depth = 0
    /\ result.kind = "Some"
    /\ last_confirmed = {call[1]}
    /\ watch.offset > call[1]
    /\ watch.latest # {}

\* C9: a confirmed entry carries the payload of the most recent accepted push
\* of its offset, never that of an entry a reorg discarded; the same holds of
\* the entries still waiting in the window.
C9_ConfirmedIsLatest ==
    /\ (result.kind = "Some" /\ result.entry[1] = watch.offset)
          => watch.latest = {result.entry[2]}
    /\ \A i \in 1..Len(buffer.queue) :
          buffer.queue[i][1] = watch.offset
              => watch.latest = {buffer.queue[i][2]}

C9_Witness ==
    /\ result.kind = "Some"
    /\ result.entry[1] = watch.offset
    /\ watch.evicted
    /\ result.entry # call

\* C10: push never panics and never overflows: on every non-empty window the
\* sum last_offset + 1 stays within the offset type and the call returns Ok
\* or Err.
C10_NoPanicNoOverflow ==
    (Called /\ before.queue # <<>>)
        => /\ LastBefore + 1 <= MaxU64
           /\ IsOk(result) \/ IsErr(result)

\* The window after the most recent call, with a confirmed front entry put
\* back: what the call made of the window before it handed anything out.
WithConfirmed ==
    IF result.kind = "Some" THEN <<result.entry>> \o buffer.queue
    ELSE buffer.queue

\* C11: whenever push returns Some(confirmed), the confirmed offset is
\* strictly less than the offset of every entry left in the window.
C11_ConfirmedOlderThanWindow ==
    result.kind = "Some"
        => \A i \in 1..Len(buffer.queue) :
              result.entry[1] < buffer.queue[i][1]

\* C12: every successful push onto a non-empty window with last offset `last`
\* removes exactly r = last + 1 - offset entries from the back of the window
\* before it appends the new entry, never fewer.
C12_EvictsExactlyR ==
    (Called /\ IsOk(result) /\ before.queue # <<>>)
        => LET r == LastBefore + 1 - call[1]
           IN  /\ r <= Len(before.queue)
               /\ WithConfirmed =
                     Append(SubSeq(before.queue, 1, Len(before.queue) - r),
                            call)

\* C13: whenever push(n, _) returns Some((o, _)), n = o + depth, and the entry
\* was in the window immediately before the call, or is the pushed entry
\* itself when depth = 0.
C13_ConfirmedAfterDepth ==
    (Called /\ result.kind = "Some")
        => /\ call[1] = result.entry[1] + before.depth
           /\ IF before.depth = 0
              THEN result.entry = call
              ELSE \E i \in 1..Len(before.queue) :
                      before.queue[i] = result.entry

\* C18 as claimed, for every depth >= 0: each confirmed offset is at most 1
\* greater than the offset confirmed before it.
C18_NoGapsAnyDepth ==
    result.kind = "Some"
        => \A o \in confirmed_before : result.entry[1] <= o + 1

\* C18 as amended, for every depth >= 1: each confirmed offset is at most 1
\* greater than the offset confirmed before it, and a push that skips an
\* offset of a non-empty window is reported as MissingOffset.
C18_NoGapsPositiveDepth ==
    /\ (buffer.depth >= 1 /\ result.kind = "Some")
          => \A o \in confirmed_before : result.entry[1] <= o + 1
    /\ (Called /\ before.queue # <<>> /\ call[1] > LastBefore + 1)
          => result.kind = "MissingOffset"

C18_Witness ==
    /\ buffer.depth >= 2
    /\ result.kind = "Some"
    /\ confirmed_before = {result.entry[1] - 1}

\* C19: a push onto an empty window succeeds for any offset; with depth >= 1,
\* once a push has been accepted the window is never empty again and its last
\* entry is the most recently accepted (offset, payload).
C19_EmptyAcceptsAndBackIsLatest ==
    /\ (Called /\ before.queue = <<>>) => IsOk(result)
    /\ (buffer.depth >= 1 /\ last_accepted # {})
          => /\ buffer.queue # <<>>
             /\ last_accepted = {back(buffer.queue)}

C19_Witness ==
    /\ buffer.depth >= 1
    /\ last_confirmed # {}
    /\ IsErr(result)
    /\ last_accepted = {back(buffer.queue)}
    /\ \E o \in Offsets : o # call[1] /\ back(buffer.queue)[1] = o

\* The most recent push of a run returned None during the first depth pushes
\* and afterwards Some of the entry pushed depth pushes earlier, at offset
\* n - depth.
RunResult ==
    run # <<>>
        => IF Len(run) <= buffer.depth
           THEN result = OkNone
           ELSE /\ result = OkSome(run[Len(run) - buffer.depth])
                /\ result.entry[1] = call[1] - buffer.depth

\* C14: pushing consecutive offsets k, k + 1, ... onto an empty buffer of
\* depth d >= 1, the first d pushes return None and every later push of
\* offset n returns Some of the entry pushed at offset n - d; hence every
\* accepted entry whose offset has a d-th successor is eventually confirmed.
C14_ConsecutiveRun ==
    /\ []RunResult
    /\ \A o \in Offsets :
          (run # <<>> /\ back(run)[1] = o /\ o + buffer.depth <= MaxU64)
              ~> (result.kind = "Some" /\ result.entry = run[Len(run) - buffer.depth]
                    /\ result.entry[1] = o)

C14_Witness ==
    /\ buffer.depth >= 2
    /\ Len(run) > buffer.depth + 1
    /\ result.kind = "Some"
    /\ result.entry[2] # call[2]

\* What a result shows apart from payloads: its kind, with the confirmed
\* offset or the error value.
Shape(r) ==
    IF r.kind = "Some" THEN <<r.kind, r.entry[1]>>
    ELSE IF IsErr(r) THEN <<r.kind, r.value>>
    ELSE <<r.kind>>

OffsetsOf(q) == [i \in 1..Len(q) |-> q[i][1]]

\* C15: two buffers of the same depth pushed the same offsets with different
\* payloads return, call by call, results of the same kind with the same
\* offset or error value, and hold windows with the same offsets; an entry
\* with an empty payload is confirmed like any other.
C15_ShapeIndependentOfPayload ==
    /\ Shape(result) = Shape(twin.result)
    /\ OffsetsOf(buffer.queue) = OffsetsOf(twin.buffer.queue)
    /\ buffer.depth = twin.buffer.depth

C15_Witness ==
    /\ buffer.depth >= 2
    /\ result.kind = "Some"
    /\ result.entry[2] = <<>>
    /\ twin.result.kind = "Some"
    /\ twin.result.entry[2] # <<>>
    /\ \E i \in 1..Len(buffer.queue) :
          buffer.queue[i][2] # twin.buffer.queue[i][2]

\* C16: in the host loop, once buffer.push has returned MissingOffset or
\* DepthExceeded the loop has returned from main, and nothing happens after
\* it: no block is read and push is not called again.
C16_HostStopsOnError ==
    /\ [](IsErr(result) => host.pc = "returned")
    /\ [][~IsErr(result)]_vars

C16_Witness ==
    /\ host.pc = "returned"
    /\ result.kind = "DepthExceeded"
    /\ host.pushed
    /\ buffer.queue # <<>>

\* Some log of the batch in hand is one parse rejects, after well-formed ones.
HasMalformedLog ==
    \E i \in 1..Len(host.logs) :
        /\ host.logs[i] = "malformed"
        /\ \A j \in 1..(i - 1) : host.logs[j] = "swap"

\* C17: in the host loop, if fetching the logs or parsing a log of the block
\* in hand fails, main returns that error: push has not been called for the
\* block, the failing step leaves the buffer as it was, and nothing happens
\* after it.
C17_HostFailsWithoutPush ==
    /\ [](host.pc = "failed"
            => ~host.pushed /\ host.error \in {"logs", "parse"})
    /\ [][(host.pc = "parse" /\ HasMalformedLog)
            => host'.pc = "failed" /\ host'.error = "parse"]_vars
    /\ [][host'.pc = "failed"
            => buffer' = buffer /\ call' = call /\ result' = result]_vars
    /\ [][host.pc # "failed"]_vars

C17_Witness ==
    /\ host.pc = "failed"
    /\ host.error = "parse"
    /\ host.logs = <<"swap", "malformed">>
    /\ Len(buffer.queue) >= 2
    /\ call[1] # host.number
====
